---------------------------- MODULE Spec2Model ----------------------------
(***************************************************************************)
(* A model of package dialog (src/dialog.go): a thin driver of the unix    *)
(* 'dialog' utility.  Texts (menu keys, typed text, checklist output) are  *)
(* sequences of one-character strings, so that parsing is computed and not *)
(* assumed.  Absent pointers, funcs and interface values are Nil.          *)
(***************************************************************************)
EXTENDS Integers, Sequences, FiniteSets, TLC

VARIABLES
    \* ---- sizing resolver (Common.width / Common.height) ----
    szCommon,   \* the Common whose size was resolved last
    szQueryW,   \* what terminal.GetSize answered inside width()
    szQueryH,   \* what terminal.GetSize answered inside height()
    szW,        \* the value width() returned
    szH,        \* the value height() returned
    szPc,       \* "new", "height" (height() is next), "width", "done"
    \* ---- the dialog tree and the caller's walk over it ----
    nodes,      \* node id -> the dialog constructed by the caller
    strCell,    \* caller-owned string cells  (InputBox.Value points at one)
    boolCell,   \* caller-owned bool cells    (CheckListItem.Value)
    lastOk,     \* node id -> what its last successful Run got back (the
                \* text, the set of indices), or what its cells held at first
    cur,        \* the Dialog value whose Run is being / was last called
    pc,         \* where that Run call is: "idle", "call", "run", "back", "ret"
    opts,       \* Menu.Run's local opts (what m.Options() returned)
    optCalls,   \* what each call of m.Options() in this Run call returned
    cmdArgs,    \* the argument list handed to exec.Command
    choice,     \* the bytes runStdin returned (choiceOutput)
    runErr,     \* the error runStdin returned; Pending before it returns
    ret,        \* what Run returned: [next |-> Dialog value, err |-> error]
    cells0,     \* the cells as they were when Run was called
    spawns,     \* external processes started by this Run call
    valCalls,   \* the Validate calls of this Run call: the argument, the
                \* answer, and the cells as they were during the call
    \* ---- inside runStdin: the process, its result pipe, the drain task ----
    auxPipe,    \* bytes written to the result pipe (fd 3) and not yet read
    auxWr,      \* whether the adapter's outpipewr is open
    buf,        \* choiceOutput, filled by the drain goroutine
    drain,      \* the drain goroutine: "none", "copying", "sending", "done"
    proc,       \* the dialog process of this call: "none", "running", "exited"
    procOut,    \* the bytes the process has yet to print
    procWritten,\* the bytes the process has printed to fd 3
    execErr,    \* the error cmd.Run returned; Pending before it returns
    orphans,    \* processes of earlier Run calls that are still running
    events,     \* the order of: "exit", "close", "drained", "read"
    unreadAtExit, \* the bytes that were still in the result pipe at exit
    \* ---- ProgramBox: the producer goroutine and the stdin pipe ----
    prod,       \* the goroutine running m.Program: "none", "running",
                \* "writing" (inside pipewr.Write), "sending", "done"
    prodErr,    \* what m.Program returned; Pending before it returns
    prodWrites, \* the chunks m.Program has written so far
    ioData,     \* a chunk is offered on the io.Pipe and not yet read
    ioClosed,   \* pipewr was closed (by m.Program)
    copier,     \* os/exec's goroutine copying cmd.Stdin to the process:
                \* "none", "reading", "writing", "done"
    stdinBuf    \* chunks in the process's stdin pipe, not yet read by it

sizeVars == <<szCommon, szQueryW, szQueryH, szW, szH, szPc>>
cellVars == <<strCell, boolCell, lastOk>>
menuVars == <<opts, optCalls>>
callVars == <<cur, pc, menuVars, cmdArgs, choice, runErr, ret, cells0,
              spawns, valCalls>>
runVars == <<auxPipe, auxWr, buf, drain, proc, procOut, procWritten, execErr,
             orphans, events, unreadAtExit>>
progVars == <<prod, prodErr, prodWrites, ioData, ioClosed, copier, stdinBuf>>
vars == <<sizeVars, nodes, cellVars, callVars, runVars, progVars>>

Nil == "nil"

\* ------------------------------------------------------------------ bounds
\* configured Width/Height range over -MaxDim..MaxDim
MaxDim == 2
\* the terminal reports 0..MaxScreen columns and rows
MaxScreen == 2
\* a menu's supplier returns at most MaxOpts options
MaxOpts == 2
\* a checklist has at most MaxItems items
MaxItems == 2
\* the program prints at most MaxLen bytes for a checklist
MaxLen == 3
\* a producer writes at most MaxChunks chunks to its sink
MaxChunks == 2

\* --------------------------------------------------------------- constants
DEFAULT_HEIGHT == 20
DEFAULT_WIDTH == 60

\* ------------------------------------------------------------------ sizing
\* terminal.GetSize(fd): (width, height, err)
TermQueries ==
    { [w |-> 0, h |-> 0, err |-> "enotty"] }
        \cup [w : 0..MaxScreen, h : 0..MaxScreen, err : {Nil}]

\* no query made (yet): width() and height() ask only for a negative value
NoQuery == [w |-> 0, h |-> 0, err |-> "unasked"]

Commons == [Width : -MaxDim..MaxDim, Height : -MaxDim..MaxDim]

width_ge(c, q) ==
    IF c.Width >= 0 THEN c.Width
    ELSE IF c.Width < 0 /\ q.err = Nil THEN q.w + c.Width
    ELSE DEFAULT_WIDTH

width(c, q) ==
    IF c.Width > 0 THEN c.Width
    ELSE IF c.Width < 0 /\ q.err = Nil THEN q.w + c.Width
    ELSE DEFAULT_WIDTH

\* the mutant of height: a result that is not positive gives way to the
\* default
height_clamped(c, q) ==
    IF c.Height > 0 THEN c.Height
    ELSE IF c.Height < 0 /\ q.err = Nil /\ q.h + c.Height > 0
         THEN q.h + c.Height
    ELSE DEFAULT_HEIGHT

height(c, q) ==
    IF c.Height > 0 THEN c.Height
    ELSE IF c.Height < 0 /\ q.err = Nil THEN q.h + c.Height
    ELSE DEFAULT_HEIGHT

\* ------------------------------------------------------------ Go values
\* Dialog interface values: nil, a pointer to a constructed node, or a
\* ChildDialog struct (returned by value from Menu.Run).
NilDialog == [tag |-> "nil"]
NodeRef(id) == [tag |-> "node", id |-> id]
ChildDialog(d, crumb, menu, mo) ==
    [tag |-> "child", Dialog |-> d, Crumb |-> crumb, ParentMenu |-> menu,
     MenuOption |-> mo]

\* string(choiceOutput.Bytes()): the bytes as one Go string
RECURSIVE Str(_)
Str(bytes) == IF bytes = <<>> THEN "" ELSE Head(bytes) \o Str(Tail(bytes))

DefaultTitle == "Title"

title(c) == IF c.Title # "" THEN c.Title ELSE DefaultTitle

runArgs(c) == <<"--title", title(c)>>

\* the answers terminal.GetSize may give to a resolver that asks
QueriesFor(v) == IF v < 0 THEN TermQueries ELSE {NoQuery}

\* strconv.Itoa(m.height()), strconv.Itoa(m.width())
sizeArgs(c, qh, qw) == <<ToString(height(c, qh)), ToString(width(c, qw))>>

\* cmdArgs := append([]string{"--output-fd", "3"}, args...)
withOutputFd(args) == <<"--output-fd", "3">> \o args

Pending == "pending"
NoRet == [next |-> NilDialog, err |-> Pending]
Return(d) == [next |-> d, err |-> Nil]
Fail(e) == [next |-> NilDialog, err |-> e]

\* the node cur stands for: a ChildDialog embeds its Dialog, so Run on
\* it is Run on the wrapped node
Target(d) == IF d.tag = "child" THEN d.Dialog ELSE d
IsKind(k) == Target(cur).tag = "node" /\ nodes[Target(cur).id].kind = k
Self == Target(cur).id
This == nodes[Self]

\* the breadcrumb string the caller passes to Run
Crumbs == "crumbs"

\* --------------------------------------------------------------- the walk
\* A Run call starts with fresh locals.  Goroutines an earlier call left
\* behind share nothing with the new call and are dropped from the state; a
\* process an earlier call left running is counted in orphans.
NewCall ==
    /\ opts' = <<>> /\ optCalls' = <<>>
    /\ cmdArgs' = <<>> /\ choice' = <<>>
    /\ runErr' = Pending /\ ret' = NoRet
    /\ cells0' = [s |-> strCell, b |-> boolCell]
    /\ spawns' = 0 /\ valCalls' = <<>>
    /\ auxPipe' = <<>> /\ auxWr' = FALSE /\ buf' = <<>> /\ drain' = "none"
    /\ proc' = "none" /\ procOut' = <<>> /\ procWritten' = <<>>
    /\ execErr' = Pending /\ events' = <<>> /\ unreadAtExit' = <<>>
    /\ orphans' = orphans + (IF proc = "running" THEN 1 ELSE 0)
    /\ prod' = "none" /\ prodErr' = Pending /\ prodWrites' = 0
    /\ ioData' = FALSE /\ ioClosed' = FALSE /\ copier' = "none"
    /\ stdinBuf' = 0

\* The caller's loop calls Run on a node of its choice ...
Enter ==
    /\ pc \in {"idle", "ret"}
    /\ \E id \in DOMAIN nodes : cur' = NodeRef(id)
    /\ pc' = "call"
    /\ NewCall
    /\ UNCHANGED <<nodes, cellVars, sizeVars>>

\* ... or on the Dialog the last Run returned.  A ChildDialog that wraps a
\* nil Dialog has no Run to call: the call is a nil dereference.
Follow ==
    /\ pc = "ret" /\ ret.err = Nil /\ ret.next # NilDialog
    /\ cur' = ret.next
    /\ pc' = IF Target(ret.next) = NilDialog THEN "panic" ELSE "call"
    /\ NewCall
    /\ UNCHANGED <<nodes, cellVars, sizeVars>>

\* run(args) taken as one step: os.Pipe fails, or the program cannot be
\* started, or it runs once, prints k and exits with status 0 or not.
\* Texts bounds what it may print.
RunErrs == {Nil, "exit status 1", "exec: not found",
            "pipe: too many open files"}

RunAtomic(Texts) ==
    /\ pc = "run"
    /\ \E k \in Texts, e \in RunErrs :
        /\ choice' = (IF e \in {Nil, "exit status 1"} THEN k ELSE <<>>)
        /\ runErr' = e
        /\ spawns' = (IF e \in {Nil, "exit status 1"} THEN spawns + 1
                      ELSE spawns)
    /\ pc' = "back"
    /\ UNCHANGED <<runVars, progVars, nodes, cellVars, sizeVars, cur, menuVars,
                   cmdArgs, ret, cells0, valCalls>>

\* ----------------------------------------------------------------- MsgBox
MsgBoxBegin ==
    /\ pc = "call" /\ IsKind("MsgBox")
    /\ \E qh \in QueriesFor(This.Common.Height),
          qw \in QueriesFor(This.Common.Width) :
        cmdArgs' = withOutputFd(runArgs(This.Common)
                      \o <<"--msgbox", This.Text>>
                      \o sizeArgs(This.Common, qh, qw))
    /\ pc' = "run"
    /\ UNCHANGED <<runVars, progVars, nodes, cellVars, sizeVars, cur, menuVars,
                   choice, runErr, ret, cells0, spawns, valCalls>>

MsgBoxEnd ==
    /\ pc = "back" /\ IsKind("MsgBox")
    /\ ret' = IF runErr # Nil THEN Fail(runErr) ELSE Return(This.NextSibling)
    /\ pc' = "ret"
    /\ UNCHANGED <<runVars, progVars, nodes, cellVars, sizeVars, cur, menuVars,
                   cmdArgs, choice, runErr, cells0, spawns, valCalls>>

\* ------------------------------------------------------------------- Menu
menuHeight(m, optlen) == IF m.MenuHeight > 0 THEN m.MenuHeight ELSE optlen

RECURSIVE optionArgs(_)
optionArgs(os) ==
    IF os = <<>> THEN <<>>
    ELSE <<Head(os).Key, Head(os).Text>> \o optionArgs(Tail(os))

\* what a crumb func returns when called
CrumbFuncText(fn) == "crumb of " \o fn
CallCrumb(c) == IF c.tag = "func" THEN CrumbFuncText(c.fn) ELSE c.mo.Text

\* crumbFunc := mo.CrumbText; if nil, a closure over mo returning mo.Text
crumbFunc(mo) ==
    IF mo.CrumbText # Nil THEN [tag |-> "func", fn |-> mo.CrumbText]
    ELSE [tag |-> "closure", mo |-> mo]

\* the mutants of menuSelect: the last match wins / an unmatched key falls
\* back to the first option
RECURSIVE menuSelect_last(_, _, _)
menuSelect_last(menu, os, k) ==
    IF os = <<>> THEN Fail("returned option '" \o k \o "' not found")
    ELSE LET mo == os[Len(os)] IN
         IF mo.Key = k
         THEN Return(ChildDialog(mo.Next, crumbFunc(mo), menu, mo))
         ELSE menuSelect_last(menu, SubSeq(os, 1, Len(os) - 1), k)

menuSelect_fallback(menu, os, k) ==
    LET hits == {i \in 1..Len(os) : os[i].Key = k}
        pick == IF hits = {} THEN 1
                ELSE CHOOSE i \in hits : \A j \in hits : i <= j
    IN  IF os = <<>> THEN Fail("returned option '" \o k \o "' not found")
        ELSE Return(ChildDialog(os[pick].Next, crumbFunc(os[pick]), menu,
                                os[pick]))

\* the mutant of menuSelect: an option without Next ends the walk
RECURSIVE menuSelect_unwrapNil(_, _, _)
menuSelect_unwrapNil(menu, os, k) ==
    IF os = <<>> THEN Fail("returned option '" \o k \o "' not found")
    ELSE LET mo == Head(os) IN
         IF mo.Key = k
         THEN IF mo.Next = NilDialog THEN Return(NilDialog)
              ELSE Return(ChildDialog(mo.Next, crumbFunc(mo), menu, mo))
         ELSE menuSelect_unwrapNil(menu, Tail(os), k)

\* for _, mo := range opts { if mo.Key == k { return ChildDialog{...} } }
\* return nil, fmt.Errorf("returned option '%s' not found", k)
RECURSIVE menuSelect(_, _, _)
menuSelect(menu, os, k) ==
    IF os = <<>> THEN Fail("returned option '" \o k \o "' not found")
    ELSE LET mo == Head(os) IN
         IF mo.Key = k
         THEN Return(ChildDialog(mo.Next, crumbFunc(mo), menu, mo))
         ELSE menuSelect(menu, Tail(os), k)

\* the mutant of menuArgs: --default-item is passed also for an empty key
menuArgs_alwaysDefault(m, os, qh, qw) ==
    withOutputFd(runArgs(m.Common)
        \o <<"--default-item", m.DefaultKey>>
        \o <<"--menu",
             IF m.Text # Nil THEN Crumbs \o "\\n" \o m.Text ELSE Crumbs>>
        \o sizeArgs(m.Common, qh, qw)
        \o <<ToString(menuHeight(m, Len(os)))>>
        \o optionArgs(os))

\* the arguments Menu.Run builds, with the pair runStdin puts in front
menuArgs(m, os, qh, qw) ==
    withOutputFd(runArgs(m.Common)
        \o (IF m.DefaultKey # ""
            THEN <<"--default-item", m.DefaultKey>> ELSE <<>>)
        \o <<"--menu",
             IF m.Text # Nil THEN Crumbs \o "\\n" \o m.Text ELSE Crumbs>>
        \o sizeArgs(m.Common, qh, qw)
        \o <<ToString(menuHeight(m, Len(os)))>>
        \o optionArgs(os))

\* what m.Options() may answer: one of Lists, or an error
OptionsResults(Lists) ==
    [opts : Lists, err : {Nil}] \cup [opts : {<<>>}, err : {"options failed"}]

\* the mutant of MenuBegin: the supplier is asked once for the list that is
\* shown and once more for the list the key is looked up in
MenuBegin_twice(Lists) ==
    /\ pc = "call" /\ IsKind("Menu")
    /\ \E r \in OptionsResults(Lists), r2 \in OptionsResults(Lists) :
        IF r.err # Nil
        THEN /\ optCalls' = Append(optCalls, r)
             /\ ret' = Fail(r.err)
             /\ pc' = "ret"
             /\ UNCHANGED <<opts, cmdArgs>>
        ELSE /\ optCalls' = optCalls \o <<r, r2>>
             /\ opts' = r2.opts
             /\ \E qh \in QueriesFor(This.Common.Height),
                   qw \in QueriesFor(This.Common.Width) :
                    cmdArgs' = menuArgs(This, r.opts, qh, qw)
             /\ pc' = "run"
             /\ UNCHANGED ret
    /\ UNCHANGED <<runVars, progVars, nodes, cellVars, sizeVars, cur, choice,
                   runErr, cells0, spawns, valCalls>>

\* opts, err := m.Options(); if err != nil { return nil, err }; then the
\* arguments, up to the call of run(args)
MenuBegin(Lists) ==
    /\ pc = "call" /\ IsKind("Menu")
    /\ \E r \in OptionsResults(Lists) :
        /\ optCalls' = Append(optCalls, r)
        /\ IF r.err # Nil
           THEN /\ ret' = Fail(r.err)
                /\ pc' = "ret"
                /\ UNCHANGED <<opts, cmdArgs>>
           ELSE /\ opts' = r.opts
                /\ \E qh \in QueriesFor(This.Common.Height),
                      qw \in QueriesFor(This.Common.Width) :
                       cmdArgs' = menuArgs(This, r.opts, qh, qw)
                /\ pc' = "run"
                /\ UNCHANGED ret
    /\ UNCHANGED <<runVars, progVars, nodes, cellVars, sizeVars, cur, choice,
                   runErr, cells0, spawns, valCalls>>

MenuEnd ==
    /\ pc = "back" /\ IsKind("Menu")
    /\ ret' = IF runErr # Nil THEN Fail(runErr)
              ELSE menuSelect(Self, opts, Str(choice))
    /\ pc' = "ret"
    /\ UNCHANGED <<runVars, progVars, nodes, cellVars, sizeVars, cur, menuVars,
                   cmdArgs, choice, runErr, cells0, spawns, valCalls>>

\* --------------------------------------------------------------- InputBox
\* what a Validate func may answer: (message, ok)
Verdicts == [msg : {""}, ok : {TRUE}] \cup [msg : {"invalid"}, ok : {FALSE}]

\* the mutant of inputBoxStore: a rejected text is not stored
inputBoxStore_validated(m, sc, k, ok) ==
    IF ok THEN [sc EXCEPT ![m.Value] = k] ELSE sc

\* *m.Value = k, whatever Validate said (ok is read nowhere)
inputBoxStore(m, sc, k, ok) == [sc EXCEPT ![m.Value] = k]

InputBoxBegin ==
    /\ pc = "call" /\ IsKind("InputBox")
    /\ IF This.Value = Nil
       THEN /\ ret' = Fail("inputbox has no result ptr")
            /\ pc' = "ret"
            /\ UNCHANGED cmdArgs
       ELSE IF This.Text = Nil
       THEN /\ ret' = Fail("inputbox has no text func")
            /\ pc' = "ret"
            /\ UNCHANGED cmdArgs
       ELSE /\ \E qh \in QueriesFor(This.Common.Height),
                  qw \in QueriesFor(This.Common.Width) :
                cmdArgs' = withOutputFd(runArgs(This.Common)
                    \o <<"--inputbox", Crumbs \o "\\n" \o This.Text>>
                    \o sizeArgs(This.Common, qh, qw)
                    \o <<strCell[This.Value]>>)
            /\ pc' = "run"
            /\ UNCHANGED ret
    /\ UNCHANGED <<runVars, progVars, nodes, cellVars, sizeVars, cur, menuVars,
                   choice, runErr, cells0, spawns, valCalls>>

\* the mutant of InputBoxEnd: the cell is written before the error is looked at
InputBoxEnd_storeFirst ==
    /\ pc = "back" /\ IsKind("InputBox")
    /\ strCell' = inputBoxStore(This, strCell, Str(choice), TRUE)
    /\ lastOk' = IF runErr # Nil THEN lastOk
                 ELSE [lastOk EXCEPT ![Self] = [text |-> Str(choice)]]
    /\ ret' = IF runErr # Nil THEN Fail(runErr)
              ELSE Return(This.NextSibling)
    /\ pc' = "ret"
    /\ UNCHANGED <<runVars, progVars, nodes, boolCell, sizeVars, cur, menuVars,
                   cmdArgs, choice, runErr, cells0, spawns, valCalls>>

\* k, err := run(args) has returned: the error check, the Validate call
\* whose answer is dropped, the store, the return
InputBoxEnd ==
    /\ pc = "back" /\ IsKind("InputBox")
    /\ IF runErr # Nil
       THEN /\ ret' = Fail(runErr)
            /\ UNCHANGED <<strCell, lastOk, valCalls>>
       ELSE \E v \in (IF This.Validate # Nil THEN Verdicts
                      ELSE {[msg |-> "", ok |-> TRUE]}) :
            /\ valCalls' = IF This.Validate # Nil
                           THEN Append(valCalls,
                                       [arg |-> Str(choice), ok |-> v.ok,
                                        seen |-> [s |-> strCell,
                                                  b |-> boolCell]])
                           ELSE valCalls
            /\ strCell' = inputBoxStore(This, strCell, Str(choice), v.ok)
            /\ lastOk' = [lastOk EXCEPT ![Self] = [text |-> Str(choice)]]
            /\ ret' = Return(This.NextSibling)
    /\ pc' = "ret"
    /\ UNCHANGED <<runVars, progVars, nodes, boolCell, sizeVars, cur, menuVars,
                   cmdArgs, choice, runErr, cells0, spawns>>

\* ----------------------------------------------------------- CheckListBox
\* unicode.IsSpace, which strings.TrimSpace cuts at both ends ("\\v", "NEL"
\* and "NBSP" stand for U+000B, U+0085 and U+00A0)
unicodeSpace == {"\t", "\n", "\\v", "\f", "\r", " ", "NEL", "NBSP"}
\* the class \s of package regexp
reSpace == {"\t", "\n", "\f", "\r", " "}

RECURSIVE trimLeft(_)
trimLeft(b) ==
    IF b # <<>> /\ Head(b) \in unicodeSpace THEN trimLeft(Tail(b)) ELSE b

RECURSIVE trimRight(_)
trimRight(b) ==
    IF b # <<>> /\ b[Len(b)] \in unicodeSpace
    THEN trimRight(SubSeq(b, 1, Len(b) - 1)) ELSE b

TrimSpace(b) == trimRight(trimLeft(b))

\* regexp.MustCompile("\\s+").Split(s, -1): the pieces of s between the
\* maximal runs of \s; a run at either end leaves an empty piece there, and
\* the empty string splits into one empty piece.  tok is the piece being
\* read, inRun whether the last byte read was in a run.
RECURSIVE splitFrom(_, _, _)
splitFrom(b, tok, inRun) ==
    IF b = <<>> THEN <<tok>>
    ELSE IF Head(b) \in reSpace
         THEN IF inRun THEN splitFrom(Tail(b), tok, TRUE)
              ELSE <<tok>> \o splitFrom(Tail(b), <<>>, TRUE)
         ELSE splitFrom(Tail(b), Append(tok, Head(b)), FALSE)

Split(b) == splitFrom(b, <<>>, FALSE)

Digits == <<"0", "1", "2", "3", "4", "5", "6", "7", "8", "9">>
IsDigit(c) == \E d \in 1..10 : Digits[d] = c
DigitVal(c) == (CHOOSE d \in 1..10 : Digits[d] = c) - 1

\* strconv.Atoi on a short string: an optional sign, then one or more
\* decimal digits and nothing else
RECURSIVE atoiDigits(_, _)
atoiDigits(b, n) ==
    IF b = <<>> THEN [v |-> n, err |-> Nil]
    ELSE IF ~IsDigit(Head(b)) THEN [v |-> 0, err |-> "invalid syntax"]
    ELSE atoiDigits(Tail(b), n * 10 + DigitVal(Head(b)))

Atoi(b) ==
    IF b = <<>> THEN [v |-> 0, err |-> "invalid syntax"]
    ELSE LET signed == Head(b) \in {"+", "-"}
             body == IF signed THEN Tail(b) ELSE b
             r == atoiDigits(body, 0)
         IN  IF body = <<>> THEN [v |-> 0, err |-> "invalid syntax"]
             ELSE IF r.err = Nil /\ Head(b) = "-"
                  THEN [v |-> 0 - r.v, err |-> Nil]
                  ELSE r

\* setIndices := the vi with Atoi(v) = vi, nil, 0 <= vi < len(m.Items),
\* over the pieces v of the trimmed text
setIndices(k, n) ==
    LET toks == Split(TrimSpace(k)) IN
    { Atoi(toks[j]).v : j \in { i \in 1..Len(toks) :
          Atoi(toks[i]).err = Nil /\ Atoi(toks[i]).v >= 0
                                  /\ Atoi(toks[i]).v < n } }

\* the mutant of storeItems: a cell is switched on and never off
RECURSIVE storeItems_onOnly(_, _, _, _)
storeItems_onOnly(items, i, set, bc) ==
    IF i > Len(items) THEN bc
    ELSE storeItems_onOnly(items, i + 1, set,
            IF (i - 1) \in set THEN [bc EXCEPT ![items[i].Value] = TRUE]
            ELSE bc)

\* for i, item := range m.Items { *item.Value = setIndices[i] }, in order
RECURSIVE storeItems(_, _, _, _)
storeItems(items, i, set, bc) ==
    IF i > Len(items) THEN bc
    ELSE storeItems(items, i + 1, set,
                    [bc EXCEPT ![items[i].Value] = ((i - 1) \in set)])

\* the mutant of itemArgsFrom: the tags count from one
RECURSIVE itemArgsFrom_oneBased(_, _, _)
itemArgsFrom_oneBased(items, i, bc) ==
    IF i > Len(items) THEN <<>>
    ELSE <<ToString(i), items[i].Name,
           IF bc[items[i].Value] THEN "on" ELSE "off">>
         \o itemArgsFrom_oneBased(items, i + 1, bc)

\* for i, item := range m.Items: the tag strconv.Itoa(i), the name, the
\* status read from the cell
RECURSIVE itemArgsFrom(_, _, _)
itemArgsFrom(items, i, bc) ==
    IF i > Len(items) THEN <<>>
    ELSE <<ToString(i - 1), items[i].Name,
           IF bc[items[i].Value] THEN "on" ELSE "off">>
         \o itemArgsFrom(items, i + 1, bc)

itemArgs(m, bc) == itemArgsFrom(m.Items, 1, bc)

CheckListBoxBegin ==
    /\ pc = "call" /\ IsKind("CheckListBox")
    /\ IF \E i \in 1..Len(This.Items) : This.Items[i].Value = Nil
       THEN /\ ret' = Fail("checklistbox has no result ptr")
            /\ pc' = "ret"
            /\ UNCHANGED cmdArgs
       ELSE IF This.Text = Nil
       THEN /\ ret' = Fail("checklistbox has no text func")
            /\ pc' = "ret"
            /\ UNCHANGED cmdArgs
       ELSE /\ \E qh \in QueriesFor(This.Common.Height),
                  qw \in QueriesFor(This.Common.Width) :
                cmdArgs' = withOutputFd(runArgs(This.Common)
                    \o <<"--checklist", Crumbs \o "\\n" \o This.Text>>
                    \o sizeArgs(This.Common, qh, qw)
                    \o <<ToString(Len(This.Items))>>
                    \o itemArgs(This, boolCell))
            /\ pc' = "run"
            /\ UNCHANGED ret
    /\ UNCHANGED <<runVars, progVars, nodes, cellVars, sizeVars, cur, menuVars,
                   choice, runErr, cells0, spawns, valCalls>>

\* the mutant of CheckListBoxEnd: a rejected text is not stored and the
\* checklist is shown again
CheckListBoxEnd_honoursVerdict ==
    /\ pc = "back" /\ IsKind("CheckListBox")
    /\ IF runErr # Nil
       THEN /\ ret' = Fail(runErr)
            /\ UNCHANGED <<boolCell, lastOk, valCalls>>
       ELSE \E v \in (IF This.Validate # Nil THEN Verdicts
                      ELSE {[msg |-> "", ok |-> TRUE]}) :
            /\ valCalls' = IF This.Validate # Nil
                           THEN Append(valCalls,
                                       [arg |-> Str(choice), ok |-> v.ok,
                                        seen |-> [s |-> strCell,
                                                  b |-> boolCell]])
                           ELSE valCalls
            /\ IF v.ok
               THEN /\ boolCell' = storeItems(This.Items, 1,
                              setIndices(choice, Len(This.Items)), boolCell)
                    /\ lastOk' = [lastOk EXCEPT ![Self] =
                              [set |-> setIndices(choice, Len(This.Items))]]
                    /\ ret' = Return(This.NextSibling)
               ELSE /\ UNCHANGED <<boolCell, lastOk>>
                    /\ ret' = Return(cur)
    /\ pc' = "ret"
    /\ UNCHANGED <<runVars, progVars, nodes, strCell, sizeVars, cur, menuVars,
                   cmdArgs, choice, runErr, cells0, spawns>>

\* k, err := run(args) has returned: the error check, the Validate call
\* whose answer is dropped, the parse, the stores, the return
CheckListBoxEnd ==
    /\ pc = "back" /\ IsKind("CheckListBox")
    /\ IF runErr # Nil
       THEN /\ ret' = Fail(runErr)
            /\ UNCHANGED <<boolCell, lastOk, valCalls>>
       ELSE \E v \in (IF This.Validate # Nil THEN Verdicts
                      ELSE {[msg |-> "", ok |-> TRUE]}) :
            /\ valCalls' = IF This.Validate # Nil
                           THEN Append(valCalls,
                                       [arg |-> Str(choice), ok |-> v.ok,
                                        seen |-> [s |-> strCell,
                                                  b |-> boolCell]])
                           ELSE valCalls
            /\ boolCell' = storeItems(This.Items, 1,
                              setIndices(choice, Len(This.Items)), boolCell)
            /\ lastOk' = [lastOk EXCEPT ![Self] =
                              [set |-> setIndices(choice, Len(This.Items))]]
            /\ ret' = Return(This.NextSibling)
    /\ pc' = "ret"
    /\ UNCHANGED <<runVars, progVars, nodes, strCell, sizeVars, cur, menuVars,
                   cmdArgs, choice, runErr, cells0, spawns>>

\* ------------------------------------------------------------------ Pause
PauseBegin ==
    /\ pc = "call" /\ IsKind("Pause")
    /\ \E qh \in QueriesFor(This.Common.Height),
          qw \in QueriesFor(This.Common.Width) :
        cmdArgs' = withOutputFd(runArgs(This.Common)
                      \o <<"--pause", Crumbs \o "\\n" \o This.Text>>
                      \o sizeArgs(This.Common, qh, qw)
                      \o <<ToString(This.Seconds)>>)
    /\ pc' = "run"
    /\ UNCHANGED <<runVars, progVars, nodes, cellVars, sizeVars, cur, menuVars,
                   choice, runErr, ret, cells0, spawns, valCalls>>

PauseEnd ==
    /\ pc = "back" /\ IsKind("Pause")
    /\ ret' = IF runErr # Nil THEN Fail(runErr) ELSE Return(This.NextSibling)
    /\ pc' = "ret"
    /\ UNCHANGED <<runVars, progVars, nodes, cellVars, sizeVars, cur, menuVars,
                   cmdArgs, choice, runErr, cells0, spawns, valCalls>>

\* --------------------------------------------------------------- runStdin
\* outpiperd, outpipewr, err := os.Pipe(); on success the drain goroutine
\* is started, on failure runStdin returns at once.
runStdinPipe ==
    /\ pc = "run"
    /\ \/ /\ choice' = <<>> /\ runErr' = "pipe: too many open files"
          /\ pc' = "back"
          /\ UNCHANGED <<auxWr, drain>>
       \/ /\ auxWr' = TRUE /\ drain' = "copying"
          /\ pc' = "start"
          /\ UNCHANGED <<choice, runErr>>
    /\ UNCHANGED <<nodes, cellVars, sizeVars, progVars, cur, menuVars, cmdArgs,
                   ret, cells0, spawns, valCalls, auxPipe, buf, proc, procOut,
                   procWritten, execErr, orphans, unreadAtExit, events>>

\* cmd.Run(), first half: the process is started, or cannot be.  Texts
\* bounds what a started process is going to print on fd 3.  A cmd.Stdin
\* that is no *os.File (ProgramBox's piperd) gets a goroutine of os/exec
\* that copies it to the process.
cmdStart(Texts) ==
    /\ pc = "start"
    /\ \/ /\ execErr' = "exec: not found"
          /\ pc' = "close"
          /\ UNCHANGED <<proc, procOut, spawns, copier>>
       \/ /\ \E t \in Texts : procOut' = t
          /\ proc' = "running"
          /\ spawns' = spawns + 1
          /\ copier' = IF IsKind("ProgramBox") THEN "reading" ELSE "none"
          /\ pc' = "wait"
          /\ UNCHANGED execErr
    /\ UNCHANGED <<nodes, cellVars, sizeVars, cur, menuVars, cmdArgs, choice,
                   runErr, ret, cells0, valCalls, auxPipe, auxWr, buf, drain,
                   procWritten, orphans, unreadAtExit, events, prod, prodErr,
                   prodWrites, ioData, ioClosed, stdinBuf>>

\* the process prints its next byte on fd 3
procWrite ==
    /\ proc = "running" /\ procOut # <<>>
    /\ auxPipe' = Append(auxPipe, Head(procOut))
    /\ procWritten' = Append(procWritten, Head(procOut))
    /\ procOut' = Tail(procOut)
    /\ UNCHANGED <<nodes, cellVars, sizeVars, callVars, progVars, auxWr, buf,
                   drain, proc, execErr, orphans, unreadAtExit, events>>

\* the process reads a chunk from its standard input
procRead ==
    /\ proc = "running" /\ stdinBuf > 0
    /\ stdinBuf' = stdinBuf - 1
    /\ UNCHANGED <<nodes, cellVars, sizeVars, callVars, runVars, prod,
                   prodErr, prodWrites, ioData, ioClosed, copier>>

\* the process exits, at any moment, with status 0 or not; its ends of the
\* pipes close with it
procExit ==
    /\ proc = "running"
    /\ proc' = "exited"
    /\ \E e \in {Nil, "exit status 1"} : execErr' = e
    /\ events' = Append(events, "exit")
    /\ unreadAtExit' = auxPipe
    /\ UNCHANGED <<nodes, cellVars, sizeVars, callVars, progVars, auxPipe,
                   auxWr, buf, drain, procOut, procWritten, orphans>>

\* the mutant of cmdWait: a failed process is started again
cmdWait_retry ==
    /\ pc = "wait" /\ proc = "exited" /\ copier \in {"none", "done"}
    /\ pc' = IF execErr # Nil /\ spawns < 2 THEN "start" ELSE "close"
    /\ UNCHANGED <<nodes, cellVars, sizeVars, progVars, cur, menuVars, cmdArgs,
                   choice, runErr, ret, cells0, spawns, valCalls, runVars>>

\* cmd.Run(), second half: Wait returns once the process has exited and
\* os/exec's copying goroutine (if any) has ended
cmdWait ==
    /\ pc = "wait" /\ proc = "exited" /\ copier \in {"none", "done"}
    /\ pc' = "close"
    /\ UNCHANGED <<nodes, cellVars, sizeVars, progVars, cur, menuVars, cmdArgs,
                   choice, runErr, ret, cells0, spawns, valCalls, runVars>>

\* the mutant of closeWr: the buffer is read without waiting for the drain
closeWr_noWait ==
    /\ pc = "close"
    /\ auxWr' = FALSE
    /\ events' = Append(events, "close")
    /\ pc' = "read"
    /\ UNCHANGED <<nodes, cellVars, sizeVars, progVars, cur, menuVars, cmdArgs,
                   choice, runErr, ret, cells0, spawns, valCalls, auxPipe,
                   buf, drain, proc, procOut, procWritten, execErr, orphans,
                   unreadAtExit>>

\* the mutant of closeWr: the adapter keeps its write end open
closeWr_noClose ==
    /\ pc = "close"
    /\ auxWr' = auxWr
    /\ events' = events
    /\ pc' = "recv"
    /\ UNCHANGED <<nodes, cellVars, sizeVars, progVars, cur, menuVars,
                   cmdArgs, choice, runErr, ret, cells0, spawns, valCalls,
                   auxPipe, buf, drain, proc, procOut, procWritten, execErr,
                   orphans, unreadAtExit>>

\* outpipewr.Close()
closeWr ==
    /\ pc = "close"
    /\ auxWr' = FALSE
    /\ events' = Append(events, "close")
    /\ pc' = "recv"
    /\ UNCHANGED <<nodes, cellVars, sizeVars, progVars, cur, menuVars, cmdArgs,
                   choice, runErr, ret, cells0, spawns, valCalls, auxPipe,
                   buf, drain, proc, procOut, procWritten, execErr, orphans,
                   unreadAtExit>>

\* io.Copy(choiceOutput, outpiperd): a read takes some of what is in the pipe
drainCopy ==
    /\ drain = "copying" /\ auxPipe # <<>>
    /\ \E n \in 1..Len(auxPipe) :
        /\ buf' = buf \o SubSeq(auxPipe, 1, n)
        /\ auxPipe' = SubSeq(auxPipe, n + 1, Len(auxPipe))
    /\ UNCHANGED <<nodes, cellVars, sizeVars, callVars, progVars, auxWr,
                   drain, proc, procOut, procWritten, execErr, orphans,
                   unreadAtExit, events>>

\* io.Copy returns at end of file: the pipe is empty and every write end
\* (the adapter's, the process's) is closed.  The goroutine is then at
\* doneChan <- err.
drainEOF ==
    /\ drain = "copying" /\ auxPipe = <<>>
    /\ ~auxWr /\ proc # "running"
    /\ drain' = "sending"
    /\ events' = Append(events, "drained")
    /\ UNCHANGED <<nodes, cellVars, sizeVars, callVars, progVars, auxPipe,
                   auxWr, buf, proc, procOut, procWritten, execErr, orphans,
                   unreadAtExit>>

\* <-doneChan: the rendezvous with the drain goroutine
recvDone ==
    /\ pc = "recv" /\ drain = "sending"
    /\ drain' = "done"
    /\ pc' = "read"
    /\ UNCHANGED <<nodes, cellVars, sizeVars, progVars, cur, menuVars, cmdArgs,
                   choice, runErr, ret, cells0, spawns, valCalls, auxPipe,
                   auxWr, buf, proc, procOut, procWritten, execErr, orphans,
                   unreadAtExit, events>>

\* choice := string(choiceOutput.Bytes()); return choice, err
returnChoice ==
    /\ pc = "read"
    /\ choice' = buf
    /\ runErr' = execErr
    /\ events' = Append(events, "read")
    /\ pc' = "back"
    /\ UNCHANGED <<nodes, cellVars, sizeVars, progVars, cur, menuVars, cmdArgs,
                   ret, cells0, spawns, valCalls, auxPipe, auxWr, buf, drain,
                   proc, procOut, procWritten, execErr, orphans,
                   unreadAtExit>>

\* ------------------------------------------------------------- ProgramBox
programBoxArgs(m, qh, qw) ==
    withOutputFd(runArgs(m.Common)
        \o <<"--programbox", Crumbs \o "\\n" \o m.Text>>
        \o sizeArgs(m.Common, qh, qw))

\* the mutant of ProgramBoxBegin: the producer is started before the check
ProgramBoxBegin_goFirst ==
    /\ pc = "call" /\ IsKind("ProgramBox")
    /\ prod' = "running"
    /\ IF This.Program = Nil
       THEN /\ ret' = Fail("programbox has no program callback set")
            /\ pc' = "ret"
            /\ UNCHANGED cmdArgs
       ELSE /\ \E qh \in QueriesFor(This.Common.Height),
                  qw \in QueriesFor(This.Common.Width) :
                cmdArgs' = programBoxArgs(This, qh, qw)
            /\ pc' = "run"
            /\ UNCHANGED ret
    /\ UNCHANGED <<nodes, cellVars, sizeVars, runVars, cur, menuVars, choice,
                   runErr, cells0, spawns, valCalls, prodErr, prodWrites,
                   ioData, ioClosed, copier, stdinBuf>>

\* the nil check, io.Pipe(), go func() { doneChan <- m.Program(pipewr) }()
\* and the arguments, up to the call of runStdin(args, piperd)
ProgramBoxBegin ==
    /\ pc = "call" /\ IsKind("ProgramBox")
    /\ IF This.Program = Nil
       THEN /\ ret' = Fail("programbox has no program callback set")
            /\ pc' = "ret"
            /\ UNCHANGED <<cmdArgs, prod>>
       ELSE /\ prod' = "running"
            /\ \E qh \in QueriesFor(This.Common.Height),
                  qw \in QueriesFor(This.Common.Width) :
                cmdArgs' = programBoxArgs(This, qh, qw)
            /\ pc' = "run"
            /\ UNCHANGED ret
    /\ UNCHANGED <<nodes, cellVars, sizeVars, runVars, cur, menuVars, choice,
                   runErr, cells0, spawns, valCalls, prodErr, prodWrites,
                   ioData, ioClosed, copier, stdinBuf>>

\* m.Program(pipewr) is the caller's code: it may write chunks (each Write
\* returns when the chunk has been read), close the sink, and return an
\* error or nil, in any order it likes.
prodWrite ==
    /\ prod = "running" /\ ~ioClosed /\ prodWrites < MaxChunks
    /\ prod' = "writing"
    /\ ioData' = TRUE
    /\ prodWrites' = prodWrites + 1
    /\ UNCHANGED <<nodes, cellVars, sizeVars, callVars, runVars, prodErr,
                   ioClosed, copier, stdinBuf>>

prodClose ==
    /\ prod = "running" /\ ~ioClosed
    /\ ioClosed' = TRUE
    /\ UNCHANGED <<nodes, cellVars, sizeVars, callVars, runVars, prod,
                   prodErr, prodWrites, ioData, copier, stdinBuf>>

\* m.Program returns; the goroutine is then at doneChan <- (its result)
prodReturn ==
    /\ prod = "running"
    /\ \E e \in {Nil, "producer failed"} : prodErr' = e
    /\ prod' = "sending"
    /\ UNCHANGED <<nodes, cellVars, sizeVars, callVars, runVars, prodWrites,
                   ioData, ioClosed, copier, stdinBuf>>

\* os/exec's goroutine, io.Copy(process stdin, piperd): a Read takes the
\* chunk offered, which lets the producer's Write return
copierRead ==
    /\ copier = "reading" /\ ioData
    /\ ioData' = FALSE
    /\ prod' = "running"
    /\ copier' = "writing"
    /\ UNCHANGED <<nodes, cellVars, sizeVars, callVars, runVars, prodErr,
                   prodWrites, ioClosed, stdinBuf>>

\* a Read after pipewr.Close() is the end of file: the copy ends
copierEOF ==
    /\ copier = "reading" /\ ~ioData /\ ioClosed
    /\ copier' = "done"
    /\ UNCHANGED <<nodes, cellVars, sizeVars, callVars, runVars, prod,
                   prodErr, prodWrites, ioData, ioClosed, stdinBuf>>

\* the chunk goes to the process; once the process has exited the write
\* fails (EPIPE) and the copy ends
copierWrite ==
    /\ copier = "writing"
    /\ IF proc = "running"
       THEN stdinBuf' = stdinBuf + 1 /\ copier' = "reading"
       ELSE stdinBuf' = stdinBuf /\ copier' = "done"
    /\ UNCHANGED <<nodes, cellVars, sizeVars, callVars, runVars, prod,
                   prodErr, prodWrites, ioData, ioClosed>>

\* the mutant of ProgramBoxBack: runStdin's error is not looked at
ProgramBoxBack_ignoreErr ==
    /\ pc = "back" /\ IsKind("ProgramBox")
    /\ ret' = ret /\ pc' = "pbrecv"
    /\ UNCHANGED <<nodes, cellVars, sizeVars, runVars, progVars, cur,
                   menuVars, cmdArgs, choice, runErr, cells0, spawns,
                   valCalls>>

\* _, err := runStdin(args, piperd); if err != nil { return nil, err }
ProgramBoxBack ==
    /\ pc = "back" /\ IsKind("ProgramBox")
    /\ IF runErr # Nil
       THEN ret' = Fail(runErr) /\ pc' = "ret"
       ELSE ret' = ret /\ pc' = "pbrecv"
    /\ UNCHANGED <<nodes, cellVars, sizeVars, runVars, progVars, cur, menuVars,
                   cmdArgs, choice, runErr, cells0, spawns, valCalls>>

\* the mutant of ProgramBoxEnd: the producer's error is dropped
ProgramBoxEnd_dropErr ==
    /\ pc = "pbrecv" /\ prod = "sending"
    /\ prod' = "done"
    /\ ret' = Return(This.Next)
    /\ pc' = "ret"
    /\ UNCHANGED <<nodes, cellVars, sizeVars, runVars, cur, menuVars, cmdArgs,
                   choice, runErr, cells0, spawns, valCalls, prodErr,
                   prodWrites, ioData, ioClosed, copier, stdinBuf>>

\* if err := <-doneChan; err != nil { return nil, err }; return m.Next, nil
ProgramBoxEnd ==
    /\ pc = "pbrecv" /\ prod = "sending"
    /\ prod' = "done"
    /\ ret' = IF prodErr # Nil THEN Fail(prodErr) ELSE Return(This.Next)
    /\ pc' = "ret"
    /\ UNCHANGED <<nodes, cellVars, sizeVars, runVars, cur, menuVars, cmdArgs,
                   choice, runErr, cells0, spawns, valCalls, prodErr,
                   prodWrites, ioData, ioClosed, copier, stdinBuf>>

\* ---------------------------------------------------------- specifications
NoCells == [c \in {} |-> 0]

\* what a node has to carry into its first Run: the text in an InputBox's
\* cell, the indices of a CheckListBox's items whose cells are on.  A node
\* whose Run stops at its first checks never passes anything on.
Original(n, sc, bc) ==
    IF n.kind = "InputBox" /\ n.Value # Nil /\ n.Text # Nil
    THEN [text |-> sc[n.Value]]
    ELSE IF /\ n.kind = "CheckListBox" /\ n.Text # Nil
            /\ \A j \in 1..Len(n.Items) : n.Items[j].Value # Nil
    THEN [set |-> {j - 1 : j \in {i \in 1..Len(n.Items) :
                                   bc[n.Items[i].Value]}}]
    ELSE [none |-> TRUE]

\* no Run call in progress and none made yet
WalkAtRest ==
    /\ lastOk = [id \in DOMAIN nodes |-> Original(nodes[id], strCell, boolCell)]
    /\ cur = NilDialog /\ pc = "idle"
    /\ opts = <<>> /\ optCalls = <<>>
    /\ cmdArgs = <<>> /\ choice = <<>>
    /\ runErr = Pending /\ ret = NoRet
    /\ cells0 = [s |-> strCell, b |-> boolCell]
    /\ spawns = 0 /\ valCalls = <<>>
    /\ auxPipe = <<>> /\ auxWr = FALSE /\ buf = <<>> /\ drain = "none"
    /\ proc = "none" /\ procOut = <<>> /\ procWritten = <<>>
    /\ execErr = Pending /\ events = <<>> /\ orphans = 0
    /\ unreadAtExit = <<>>
    /\ prod = "none" /\ prodErr = Pending /\ prodWrites = 0
    /\ ioData = FALSE /\ ioClosed = FALSE /\ copier = "none"
    /\ stdinBuf = 0

SizeAtRest ==
    /\ szCommon = [Width |-> 0, Height |-> 0]
    /\ szQueryW = NoQuery
    /\ szQueryH = NoQuery
    /\ szW = 0
    /\ szH = 0
    /\ szPc = "new"

\* ---- the sizing resolver on its own
SizeInit ==
    /\ SizeAtRest
    /\ nodes = NoCells /\ strCell = NoCells /\ boolCell = NoCells
    /\ WalkAtRest

\* The caller constructs a dialog with some Common.
SizeConfigure ==
    /\ szPc \in {"new", "done"}
    /\ \E c \in Commons : szCommon' = c
    /\ szQueryW' = NoQuery
    /\ szQueryH' = NoQuery
    /\ szW' = 0
    /\ szH' = 0
    /\ szPc' = "height"
    /\ UNCHANGED <<runVars, progVars, nodes, cellVars, callVars>>

\* strconv.Itoa(m.height()): the first of the two size arguments.
SizeHeight ==
    /\ szPc = "height"
    /\ \E q \in QueriesFor(szCommon.Height) :
        /\ szQueryH' = q
        /\ szH' = height(szCommon, q)
    /\ szPc' = "width"
    /\ UNCHANGED <<szCommon, szQueryW, szW, nodes, cellVars, callVars,
                   runVars, progVars>>

\* strconv.Itoa(m.width()): width() queries the terminal on its own, so the
\* two queries may answer differently.
SizeWidth ==
    /\ szPc = "width"
    /\ \E q \in QueriesFor(szCommon.Width) :
        /\ szQueryW' = q
        /\ szW' = width(szCommon, q)
    /\ szPc' = "done"
    /\ UNCHANGED <<szCommon, szQueryH, szH, nodes, cellVars, callVars,
                   runVars, progVars>>

SizeNext == SizeConfigure \/ SizeHeight \/ SizeWidth

SpecSize == SizeInit /\ [][SizeNext]_vars

\* ---- a Menu over two message boxes, run() taken as one step
PlainCommon == [Title |-> "", Width |-> 0, Height |-> 0]

MsgBox(text, next) ==
    [kind |-> "MsgBox", Common |-> PlainCommon, Text |-> text,
     NextSibling |-> next]

\* a menu with everything left at its zero value, and one with a title, a
\* height of its own and a width relative to the terminal's
MenuCommons == {PlainCommon, [Title |-> "Main", Width |-> -1, Height |-> 7]}

Menus ==
    [kind : {"Menu"}, Common : MenuCommons, Text : {Nil, "pick one"},
     MenuHeight : {0, 5}, DefaultKey : {"", "2"}]

\* the options a supplier may return
MenuOptions ==
    [Key : {"1", "2"}, Text : {"A", "B"},
     Next : {NodeRef("X"), NilDialog}, CrumbText : {Nil, "f"}]

RECURSIVE SeqsUpTo(_, _)
SeqsUpTo(S, n) ==
    IF n = 0 THEN {<<>>}
    ELSE LET shorter == SeqsUpTo(S, n - 1) IN
         shorter \cup {Append(q, x) : q \in {r \in shorter : Len(r) = n - 1},
                                      x \in S}

OptLists == SeqsUpTo(MenuOptions, MaxOpts)

\* what the program may print for a menu: a key, nothing, an unknown key,
\* a key with a trailing blank
MenuTexts == {<<>>, <<"1">>, <<"2">>, <<"9">>, <<"1", " ">>}

MenuInit ==
    /\ \E m \in Menus :
        nodes = [id \in {"m", "X"} |->
                    IF id = "m" THEN m ELSE MsgBox("hello", NilDialog)]
    /\ strCell = NoCells /\ boolCell = NoCells
    /\ WalkAtRest
    /\ SizeAtRest

MenuNext ==
    \/ Enter
    \/ Follow
    \/ MenuBegin(OptLists)
    \/ MenuEnd
    \/ MsgBoxBegin
    \/ MsgBoxEnd
    \/ RunAtomic(MenuTexts)

SpecMenu == MenuInit /\ [][MenuNext]_vars

\* ---- an InputBox, run() taken as one step
\* what the program may print for an input box
InputTexts == {<<>>, <<"old">>, <<"new">>}

InputBoxes ==
    [kind : {"InputBox"}, Common : {PlainCommon}, Text : {"name?"},
     Value : {"s"}, Validate : {Nil, "v"}, NextSibling : {NodeRef("X")}]

InputInit ==
    /\ \E m \in InputBoxes :
        nodes = [id \in {"in", "X"} |->
                    IF id = "in" THEN m ELSE MsgBox("hello", NilDialog)]
    /\ strCell \in [{"s"} -> {"", "old"}]
    /\ boolCell = NoCells
    /\ WalkAtRest
    /\ SizeAtRest

InputNext ==
    \/ Enter
    \/ Follow
    \/ InputBoxBegin
    \/ InputBoxEnd
    \/ MsgBoxBegin
    \/ MsgBoxEnd
    \/ RunAtomic(InputTexts)

SpecInput == InputInit /\ [][InputNext]_vars

\* ---- a CheckListBox, run() taken as one step
\* the bytes the program may print for a checklist: blanks, digits in and
\* out of range, a sign, a letter
CheckBytes == {" ", "\t", "0", "1", "2", "-", "x"}
CheckTexts == SeqsUpTo(CheckBytes, MaxLen)

BoolCellOf(i) == "b" \o ToString(i)

CheckListBoxes ==
    { [kind |-> "CheckListBox", Common |-> PlainCommon, Text |-> "which?",
       Items |-> [i \in 1..n |->
                    [Name |-> "item" \o ToString(i), Value |-> BoolCellOf(i)]],
       Validate |-> v, NextSibling |-> NilDialog] :
      n \in 0..MaxItems, v \in {Nil, "v"} }

CheckInit ==
    /\ \E m \in CheckListBoxes :
        /\ nodes = [id \in {"cl"} |-> m]
        /\ boolCell \in [{BoolCellOf(i) : i \in 1..Len(m.Items)} -> BOOLEAN]
    /\ strCell = NoCells
    /\ WalkAtRest
    /\ SizeAtRest

CheckNext ==
    \/ Enter
    \/ CheckListBoxBegin
    \/ CheckListBoxEnd
    \/ RunAtomic(CheckTexts)

SpecCheck == CheckInit /\ [][CheckNext]_vars

\* ---- the caller's walk over a tree with every kind of dialog, runStdin
\* ---- and ProgramBox.Run taken goroutine step by goroutine step
Option(key, text, next) ==
    [Key |-> key, Text |-> text, Next |-> NodeRef(next), CrumbText |-> Nil]

\* what the menu's supplier may return
WalkOptLists ==
    { <<Option("1", "input", "in"), Option("2", "check", "cl"),
        Option("3", "program", "pb")>>,
      <<Option("3", "program", "pb"), Option("1", "message", "msg")>> }

\* what a dialog process may be about to print (it may exit before it has
\* printed all of it)
WalkTexts == {<<"3">>, <<"0", " ", "1">>}

InputBox(text, value, next) ==
    [kind |-> "InputBox", Common |-> PlainCommon, Text |-> text,
     Value |-> value, Validate |-> "v", NextSibling |-> next]

CheckListBox(text, values, next) ==
    [kind |-> "CheckListBox", Common |-> PlainCommon, Text |-> text,
     Items |-> [i \in 1..Len(values) |->
                   [Name |-> "item" \o ToString(i), Value |-> values[i]]],
     Validate |-> "v", NextSibling |-> next]

ProgramBox(program, next) ==
    [kind |-> "ProgramBox", Common |-> PlainCommon, Text |-> "output",
     Program |-> program, Next |-> next]

WalkNodes ==
    [menu |-> [kind |-> "Menu", Common |-> PlainCommon, Text |-> Nil,
               MenuHeight |-> 0, DefaultKey |-> ""],
     in |-> InputBox("name?", "s", NodeRef("cl")),
     cl |-> CheckListBox("which?", <<"b1", "b2">>, NodeRef("pb")),
     pb |-> ProgramBox("prog", NodeRef("msg")),
     msg |-> MsgBox("hello", NodeRef("pause")),
     pause |-> [kind |-> "Pause", Common |-> PlainCommon, Text |-> "wait",
                Seconds |-> 5, NextSibling |-> NilDialog],
     in_noval |-> InputBox("name?", Nil, NodeRef("msg")),
     in_notext |-> InputBox(Nil, "s", NodeRef("msg")),
     cl_nocell |-> CheckListBox("which?", <<"b1", Nil>>, NodeRef("msg")),
     cl_notext |-> CheckListBox(Nil, <<"b1", "b2">>, NodeRef("msg")),
     pb_noprog |-> ProgramBox(Nil, NodeRef("msg"))]

Init ==
    /\ nodes = WalkNodes
    /\ strCell = [c \in {"s"} |-> "old"]
    /\ boolCell \in [{"b1", "b2"} -> BOOLEAN]
    /\ WalkAtRest
    /\ SizeAtRest

Next ==
    \/ Enter
    \/ Follow
    \/ MsgBoxBegin
    \/ MsgBoxEnd
    \/ PauseBegin
    \/ PauseEnd
    \/ MenuBegin(WalkOptLists)
    \/ MenuEnd
    \/ InputBoxBegin
    \/ InputBoxEnd
    \/ CheckListBoxBegin
    \/ CheckListBoxEnd
    \/ ProgramBoxBegin
    \/ ProgramBoxBack
    \/ ProgramBoxEnd
    \/ runStdinPipe
    \/ cmdStart(WalkTexts)
    \/ procWrite
    \/ procRead
    \/ procExit
    \/ cmdWait
    \/ closeWr
    \/ drainCopy
    \/ drainEOF
    \/ recvDone
    \/ returnChoice
    \/ prodWrite
    \/ prodClose
    \/ prodReturn
    \/ copierRead
    \/ copierEOF
    \/ copierWrite

Spec == Init /\ [][Next]_vars

\* ---- a ProgramBox and a MsgBox under the fairness of the Go scheduler:
\* ---- every goroutine that can take a step takes one in the end, the
\* ---- process exits in the end, and the producer is one that writes some
\* ---- chunks, closes its sink and only then returns
LiveNodes ==
    [pb |-> ProgramBox("prog", NodeRef("msg")),
     msg |-> MsgBox("hello", NilDialog)]

LiveInit ==
    /\ nodes = LiveNodes
    /\ strCell = NoCells /\ boolCell = NoCells
    /\ WalkAtRest
    /\ SizeAtRest

\* m.Program returns after it has closed its sink
prodReturnClosed == ioClosed /\ prodReturn

\* the goroutine that called Run
Adapter ==
    \/ MsgBoxBegin
    \/ MsgBoxEnd
    \/ ProgramBoxBegin
    \/ ProgramBoxBack
    \/ ProgramBoxEnd
    \/ runStdinPipe
    \/ cmdStart(WalkTexts)
    \/ cmdWait
    \/ closeWr
    \/ recvDone
    \/ returnChoice

Drainer == drainCopy \/ drainEOF

Copier == copierRead \/ copierEOF \/ copierWrite

Producer == prodWrite \/ prodClose \/ prodReturnClosed

LiveNext ==
    \/ Enter
    \/ Follow
    \/ Adapter
    \/ Drainer
    \/ Copier
    \/ Producer
    \/ procWrite
    \/ procRead
    \/ procExit

LiveFairness ==
    /\ WF_vars(Adapter)
    /\ WF_vars(Drainer)
    /\ WF_vars(Copier)
    /\ WF_vars(Producer)
    /\ WF_vars(procExit)

SpecLive == LiveInit /\ [][LiveNext]_vars /\ LiveFairness

\* ------------------------------------------------------------------ claims
\* Menu.Run returned after the program exited successfully with key k
MenuRan == pc = "ret" /\ IsKind("Menu") /\ runErr = Nil
KeyHits == {i \in 1..Len(opts) : opts[i].Key = Str(choice)}
FirstHit == CHOOSE i \in KeyHits : \A j \in KeyHits : i <= j

\* C1: after a successful menu invocation that returned key k, the first
\* option (in supplier order) whose key equals k is the selected one: the
\* returned Dialog is a ChildDialog wrapping that option's Next, with
\* ParentMenu this Menu, and a crumb producer that is the option's own
\* CrumbText when set and otherwise returns the option's label.
C1_MenuFirstMatch ==
    (MenuRan /\ KeyHits # {}) =>
        LET mo == opts[FirstHit] IN
        /\ ret.err = Nil
        /\ ret.next.tag = "child"
        /\ ret.next.Dialog = mo.Next
        /\ ret.next.ParentMenu = Self
        /\ ret.next.MenuOption = mo
        /\ mo.CrumbText # Nil =>
              ret.next.Crumb = [tag |-> "func", fn |-> mo.CrumbText]
        /\ mo.CrumbText = Nil =>
              /\ ret.next.Crumb.tag = "closure"
              /\ CallCrumb(ret.next.Crumb) = mo.Text

\* two options share the returned key and differ in label and crumb func;
\* the first has no crumb func, so the crumb is its label
C1_Witness ==
    /\ MenuRan /\ Len(opts) = 2
    /\ opts[1].Key = Str(choice) /\ opts[2].Key = Str(choice)
    /\ opts[1].Text = "B" /\ opts[2].Text = "A"
    /\ opts[1].CrumbText = Nil /\ opts[2].CrumbText # Nil
    /\ opts[1].Next # opts[2].Next
    /\ ret.err = Nil /\ ret.next.tag = "child"
    /\ CallCrumb(ret.next.Crumb) = "B"

\* C2: when the program exits successfully but its key equals no option's
\* key (an empty option list included), Run returns an error and a nil
\* Dialog.
C2_MenuUnmatched ==
    (MenuRan /\ KeyHits = {}) =>
        /\ ret.err \notin {Nil, Pending}
        /\ ret.err = "returned option '" \o Str(choice) \o "' not found"
        /\ ret.next = NilDialog

\* key "9" against the keys "1" and "2"
C2_Witness ==
    /\ MenuRan /\ Len(opts) = 2 /\ Str(choice) = "9"
    /\ opts[1].Key = "1" /\ opts[2].Key = "2"
    /\ ret.next = NilDialog /\ ret.err # Nil

\* the empty option list
C2_WitnessEmpty ==
    MenuRan /\ opts = <<>> /\ ret.next = NilDialog /\ ret.err # Nil

\* a token of t: positions a..b hold no blank and no non-blank borders them
Blank == {" ", "\t", "\n", "\f", "\r"}
TokenAt(t, a, b) ==
    /\ 1 <= a /\ a <= b /\ b <= Len(t)
    /\ \A j \in a..b : t[j] \notin Blank
    /\ a = 1 \/ t[a - 1] \in Blank
    /\ b = Len(t) \/ t[b + 1] \in Blank

RECURSIVE Pow10(_)
Pow10(e) == IF e = 0 THEN 1 ELSE 10 * Pow10(e - 1)

\* the value of the decimal digits at positions a..b of t
RECURSIVE Decimal(_, _, _)
Decimal(t, a, b) ==
    IF a > b THEN 0
    ELSE (CASE t[a] = "0" -> 0 [] t[a] = "1" -> 1 [] t[a] = "2" -> 2
            [] t[a] = "3" -> 3 [] t[a] = "4" -> 4 [] t[a] = "5" -> 5
            [] t[a] = "6" -> 6 [] t[a] = "7" -> 7 [] t[a] = "8" -> 8
            [] t[a] = "9" -> 9) * Pow10(b - a)
         + Decimal(t, a + 1, b)

\* the token at a..b is a decimal numeral (with or without a sign) of value i
Numeral(t, a, b, i) ==
    LET d == IF t[a] \in {"+", "-"} THEN a + 1 ELSE a IN
    /\ d <= b
    /\ \A j \in d..b :
          t[j] \in {"0", "1", "2", "3", "4", "5", "6", "7", "8", "9"}
    /\ i = (IF t[a] = "-" THEN 0 - Decimal(t, d, b) ELSE Decimal(t, d, b))

Named(t, i) ==
    \E a \in 1..Len(t), b \in 1..Len(t) : TokenAt(t, a, b) /\ Numeral(t, a, b, i)

CheckRan == pc = "ret" /\ IsKind("CheckListBox") /\ runErr = Nil

\* C3: after a successful checklist invocation with n items and returned
\* text t, item i's cell is true iff some blank-separated token of t is a
\* numeral of value i (0 <= i < n), whatever the cell held before, with or
\* without a Validate func and whatever it answered; Run returns the
\* configured NextSibling.
C3_ChecklistParse ==
    CheckRan =>
        /\ \A i \in 1..Len(This.Items) :
              boolCell[This.Items[i].Value] = Named(choice, i - 1)
        /\ ret = Return(This.NextSibling)

\* "1 2" over two items, the first on before: item 0 goes off, item 1 on,
\* the out-of-range 2 is dropped, and Validate rejected the text
C3_Witness ==
    /\ CheckRan /\ Len(This.Items) = 2
    /\ choice = <<"1", " ", "2">>
    /\ cells0.b["b1"] /\ ~cells0.b["b2"]
    /\ ~boolCell["b1"] /\ boolCell["b2"]
    /\ valCalls # <<>> /\ ~valCalls[1].ok

InputRan == pc = "ret" /\ IsKind("InputBox") /\ runErr = Nil

\* C4: whenever an input box's invocation succeeds with text r, the cell
\* holds exactly r when Run returns and Run returns the configured
\* NextSibling, for every previous cell value, with or without a Validate
\* func and also when it rejects r.
C4_InputStores ==
    InputRan =>
        /\ strCell[This.Value] = Str(choice)
        /\ ret = Return(This.NextSibling)

\* cell "old", returned text "new", a Validate func that rejects it
C4_Witness ==
    /\ InputRan
    /\ cells0.s["s"] = "old" /\ Str(choice) = "new" /\ strCell["s"] = "new"
    /\ Len(valCalls) = 1
    /\ valCalls[1].arg = "new" /\ ~valCalls[1].ok
    /\ ret.next = NodeRef("X")

\* the dialog being run lacks something its Run checks for first
PrecondFails ==
    \/ /\ IsKind("InputBox")
       /\ This.Value = Nil \/ This.Text = Nil
    \/ /\ IsKind("CheckListBox")
       /\ \/ \E i \in 1..Len(This.Items) : This.Items[i].Value = Nil
          \/ This.Text = Nil
    \/ /\ IsKind("ProgramBox")
       /\ This.Program = Nil

\* C5: Run on an InputBox without Value or Text func, on a CheckListBox with
\* an item without Value or without Text func, or on a ProgramBox without
\* Program returns an error and a nil Dialog, and at no moment of the call
\* is there a pipe, a drain or producer goroutine, a process, an argument
\* list, a Validate call or a changed cell.
C5_PreconditionFirst ==
    PrecondFails =>
        /\ pc \in {"call", "ret"}
        /\ spawns = 0 /\ proc = "none" /\ execErr = Pending
        /\ drain = "none" /\ ~auxWr
        /\ prod = "none" /\ copier = "none"
        /\ cmdArgs = <<>> /\ valCalls = <<>>
        /\ strCell = cells0.s /\ boolCell = cells0.b
        /\ pc = "ret" => (ret.err \notin {Nil, Pending} /\ ret.next = NilDialog)

\* the checklist whose second item has no cell has returned; the first
\* item's cell is on as before
C5_Witness ==
    /\ pc = "ret" /\ PrecondFails /\ IsKind("CheckListBox")
    /\ \E i \in 1..Len(This.Items) : This.Items[i].Value = Nil
    /\ \E i \in 1..Len(This.Items) :
          This.Items[i].Value # Nil /\ boolCell[This.Items[i].Value]
    /\ ret = Fail("checklistbox has no result ptr")

ProgramRan == pc = "ret" /\ IsKind("ProgramBox") /\ This.Program # Nil

\* C6: when ProgramBox.Run returns: a failed subprocess (or a runStdin that
\* could not run it) makes its error the one returned, whatever the producer
\* returned or will return; after a successful subprocess a producer error
\* is the one returned; m.Next is returned only when both succeeded.
C6_ProgramErrorPrecedence ==
    ProgramRan =>
        /\ execErr \notin {Nil, Pending} => ret = Fail(execErr)
        /\ runErr # Nil => ret = Fail(runErr)
        /\ (runErr = Nil /\ prodErr \notin {Nil, Pending})
              => ret = Fail(prodErr)
        /\ ret.err = Nil =>
              /\ ret.next = This.Next
              /\ execErr = Nil /\ prodErr = Nil /\ prod = "done"

\* the subprocess failed and the producer had already returned its own
\* error; the subprocess's error came back
C6_Witness ==
    /\ ProgramRan
    /\ execErr = "exit status 1" /\ prodErr = "producer failed"
    /\ prod = "sending"
    /\ ret = Fail("exit status 1")

IsPrefix(p, q) == Len(p) <= Len(q) /\ p = SubSeq(q, 1, Len(p))

\* C7: inside runStdin the process exits, then the adapter closes its write
\* end, then the drain's copy ends, then the buffer is read (without the
\* exit when no process could be started); the buffer is read only after
\* the drain goroutine was received from, and what is returned is all the
\* process printed on fd 3, nothing being left in the pipe.
C7_InvokeOrdering ==
    /\ \/ IsPrefix(events, <<"exit", "close", "drained", "read">>)
       \/ /\ IsPrefix(events, <<"close", "drained", "read">>)
          /\ proc = "none"
    /\ (events # <<>> /\ events[Len(events)] = "read") =>
          /\ drain = "done"
          /\ proc # "running"
          /\ auxPipe = <<>>
          /\ choice = procWritten

\* the process exited with its last byte still in the pipe, and the text
\* returned holds it
C7_Witness ==
    /\ pc = "back"
    /\ events = <<"exit", "close", "drained", "read">>
    /\ unreadAtExit = <<"1">>
    /\ choice = <<"0", " ", "1">>

\* C8: Run never returns both a Dialog and an error, and a Run that
\* returns an error has changed no cell; and when an InputBox's or
\* CheckListBox's run() failed (the process could not be started or
\* exited abnormally), that error is returned, every cell holds what it
\* held when Run was called and Validate was not called.
C8_ErrorAborts ==
    pc = "ret" =>
        /\ ret.err # Pending
        /\ ret.err # Nil =>
              /\ ret.next = NilDialog
              /\ strCell = cells0.s /\ boolCell = cells0.b
        /\ ((IsKind("InputBox") \/ IsKind("CheckListBox"))
               /\ runErr \notin {Nil, Pending})
              => /\ ret = Fail(runErr)
                 /\ strCell = cells0.s /\ boolCell = cells0.b
                 /\ valCalls = <<>>

\* an input box whose process printed a text and then exited abnormally
C8_Witness ==
    /\ pc = "ret" /\ IsKind("InputBox")
    /\ choice # <<>> /\ runErr = "exit status 1"
    /\ Str(choice) # strCell["s"]
    /\ ret = Fail("exit status 1")

Running == orphans + (IF proc = "running" THEN 1 ELSE 0)

\* C10: a Run call starts at most one process and is past cmd.Run only
\* when that process has exited, so over the caller's walk at most one
\* dialog process runs at any moment.
C10_OneProcess ==
    /\ Running <= 1
    /\ orphans = 0
    /\ spawns <= 1
    /\ pc \in {"idle", "call", "run", "start", "close", "recv", "read",
               "back", "pbrecv", "ret"} => proc # "running"

\* the walk went from the menu into the program box, whose process and
\* producer are both running
C10_Witness ==
    /\ cur.tag = "child" /\ IsKind("ProgramBox")
    /\ proc = "running" /\ prod = "running" /\ spawns = 1
    /\ Running = 1

\* C9: width and height resolve independently: v > 0 gives v, v = 0 the
\* default (60 / 20), v < 0 gives S + v when the terminal answered with
\* dimension S and the default when the query failed; a number always comes
\* back (no error value).
C9_SizingResolver ==
    szPc = "done" =>
        /\ szW \in Int /\ szH \in Int
        /\ szCommon.Width > 0 => szW = szCommon.Width
        /\ szCommon.Width = 0 => szW = 60
        /\ (szCommon.Width < 0 /\ szQueryW.err = Nil)
              => szW = szQueryW.w + szCommon.Width
        /\ (szCommon.Width < 0 /\ szQueryW.err # Nil) => szW = 60
        /\ szCommon.Height > 0 => szH = szCommon.Height
        /\ szCommon.Height = 0 => szH = 20
        /\ (szCommon.Height < 0 /\ szQueryH.err = Nil)
              => szH = szQueryH.h + szCommon.Height
        /\ (szCommon.Height < 0 /\ szQueryH.err # Nil) => szH = 20

\* a negative height and a negative width, each resolved against a terminal
\* whose two dimensions differ, one query failing in another run
C9_Witness ==
    /\ szPc = "done"
    /\ szCommon.Width < 0 /\ szQueryW.err = Nil /\ szQueryW.w # szQueryW.h
    /\ szW = szQueryW.w + szCommon.Width
    /\ szCommon.Height < 0 /\ szQueryH.err # Nil /\ szH = 20

\* the numbers a configured dimension v may resolve to, by default dflt
Resolved(v, dflt) ==
    IF v > 0 THEN {v}
    ELSE IF v < 0 THEN {S + v : S \in 0..MaxScreen} \cup {dflt}
    ELSE {dflt}

\* Menu.Run has built its arguments and is in or past run(args)
MenuArgsBuilt == IsKind("Menu") /\ pc \in {"run", "back"}

\* C11: the argument list of a Menu is, in this order: --output-fd 3,
\* --title and the resolved title, --default-item and the key exactly when
\* the key is not empty, --menu, the text (the crumbs, then the separator
\* and the extra text only when a Text func is set), the resolved height,
\* the resolved width, the menu height (MenuHeight when > 0, else the
\* number of options), then each option's key and label in supplier order.
C11_MenuArgs ==
    MenuArgsBuilt =>
        LET m == This
            a == cmdArgs
            n == Len(opts)
            d == IF m.DefaultKey # "" THEN 2 ELSE 0
        IN  /\ Len(a) = 9 + d + 2 * n
            /\ a[1] = "--output-fd" /\ a[2] = "3"
            /\ a[3] = "--title"
            /\ a[4] = (IF m.Common.Title # "" THEN m.Common.Title
                       ELSE "Title")
            /\ d = 2 => (a[5] = "--default-item" /\ a[6] = m.DefaultKey)
            /\ a[5 + d] = "--menu"
            /\ a[6 + d] = (IF m.Text = Nil THEN Crumbs
                           ELSE Crumbs \o "\\n" \o m.Text)
            /\ a[7 + d] \in {ToString(v) : v \in Resolved(m.Common.Height, 20)}
            /\ a[8 + d] \in {ToString(v) : v \in Resolved(m.Common.Width, 60)}
            /\ a[9 + d] = ToString(IF m.MenuHeight > 0 THEN m.MenuHeight
                                   ELSE n)
            /\ \A i \in 1..n :
                  /\ a[9 + d + 2 * i - 1] = opts[i].Key
                  /\ a[9 + d + 2 * i] = opts[i].Text

\* a titled menu with a default key and a Text func, two options, no
\* MenuHeight, on a terminal two columns wide
C11_Witness ==
    /\ MenuArgsBuilt /\ pc = "back" /\ spawns = 1
    /\ cmdArgs = <<"--output-fd", "3", "--title", "Main",
                   "--default-item", "2",
                   "--menu", "crumbs\\npick one", "7", "1", "2",
                   "2", "B", "1", "A">>

\* the positions of list whose key is k
HitsIn(list, k) == {i \in 1..Len(list) : list[i].Key = k}

\* C12: every Menu.Run calls the options supplier exactly once, before
\* any pipe, goroutine or process of that Run exists; the list whose keys
\* and labels end the argument list and the list the returned key is
\* looked up in are that one result; when the supplier fails Run returns
\* its error and a nil Dialog, and no process is started.
C12_OptionsOnce ==
    IsKind("Menu") =>
        /\ Len(optCalls) <= 1
        /\ pc # "call" => Len(optCalls) = 1
        /\ (spawns > 0 \/ proc # "none" \/ drain # "none" \/ auxWr
               \/ cmdArgs # <<>>)
              => (Len(optCalls) = 1 /\ optCalls[1].err = Nil)
        /\ (Len(optCalls) = 1 /\ optCalls[1].err = Nil) =>
              LET list == optCalls[1].opts
                  n == Len(list)
                  base == Len(cmdArgs) - 2 * n
                  hits == HitsIn(list, Str(choice))
              IN  /\ base >= 0
                  /\ \A i \in 1..n :
                        /\ cmdArgs[base + 2 * i - 1] = list[i].Key
                        /\ cmdArgs[base + 2 * i] = list[i].Text
                  /\ (pc = "ret" /\ runErr = Nil /\ hits = {})
                        => ret.err \notin {Nil, Pending}
                  /\ (pc = "ret" /\ runErr = Nil /\ hits # {})
                        => /\ ret.err = Nil
                           /\ \E i \in hits :
                                 /\ \A j \in hits : i <= j
                                 /\ ret.next.MenuOption = list[i]
                                 /\ ret.next.Dialog = list[i].Next
        /\ (Len(optCalls) = 1 /\ optCalls[1].err # Nil) =>
              /\ pc = "ret"
              /\ ret = Fail(optCalls[1].err)
              /\ spawns = 0 /\ proc = "none" /\ drain = "none"
              /\ ~auxWr /\ cmdArgs = <<>>

\* the menu was entered, its supplier answered with the list that begins
\* with key "3", the process printed "3" and the first option was matched
C12_Witness ==
    /\ IsKind("Menu") /\ pc = "ret" /\ runErr = Nil /\ spawns = 1
    /\ Len(optCalls) = 1 /\ Len(optCalls[1].opts) = 2
    /\ optCalls[1].opts[1].Key = "3" /\ Str(choice) = "3"
    /\ ret.err = Nil /\ ret.next.Dialog = NodeRef("pb")

\* the supplier failed: Run is back with its error and nothing was started
C12_WitnessFailed ==
    /\ IsKind("Menu") /\ pc = "ret"
    /\ Len(optCalls) = 1 /\ optCalls[1].err = "options failed"
    /\ ret = Fail("options failed") /\ spawns = 0

\* C13: in ProgramBox.Run the producer goroutine is started before the
\* process and runs while it runs; the adapter receives the producer's
\* result only after the process has exited; and m.Next is returned only
\* when the process exited successfully and the producer returned nil.
C13_ProgramOrdering ==
    (IsKind("ProgramBox") /\ This.Program # Nil) =>
        /\ (spawns > 0 \/ proc # "none" \/ drain # "none") => prod # "none"
        /\ prod = "done" =>
              /\ proc = "exited" /\ execErr = Nil /\ runErr = Nil
              /\ pc = "ret"
        /\ pc = "pbrecv" => (proc = "exited" /\ execErr = Nil)
        /\ (pc = "ret" /\ ret.err = Nil) =>
              /\ ret.next = This.Next
              /\ proc = "exited" /\ execErr = Nil
              /\ prod = "done" /\ prodErr = Nil

\* the producer wrote, closed its sink and returned nil, the process read
\* what it wrote and exited with status 0: m.Next came back
C13_Witness ==
    /\ IsKind("ProgramBox") /\ pc = "ret"
    /\ prodWrites >= 1 /\ ioClosed /\ stdinBuf = 0
    /\ copier = "done" /\ prod = "done" /\ prodErr = Nil
    /\ proc = "exited" /\ execErr = Nil
    /\ ret = Return(NodeRef("msg"))

\* the producer is inside a Write while the process is running
C13_WitnessConcurrent ==
    /\ IsKind("ProgramBox") /\ proc = "running" /\ prod = "writing"
    /\ copier = "reading" /\ pc = "wait"

\* C14: whenever ProgramBox.Run has started a producer goroutine and has
\* returned, with m.Next or with an error, it has received the producer's
\* result: the goroutine is neither at its send nor inside a Write nor
\* still running.
C14_ProducerJoined ==
    (pc = "ret" /\ IsKind("ProgramBox") /\ prod # "none") => prod = "done"

\* C15: under fair scheduling, with a process that exits in the end and a
\* producer that writes a finite number of chunks, closes its sink and
\* returns, every ProgramBox.Run that has called runStdin returns.
C15_ProgramReturns == (IsKind("ProgramBox") /\ pc = "run") ~> (pc = "ret")

\* how often the adapter has closed its write end in this call
Closes == Cardinality({i \in 1..Len(events) : events[i] = "close"})

\* cmd.Run is over: the process has exited or could not be started
ProcessOver == proc = "exited" \/ execErr = "exec: not found"

\* runStdin has returned, having created its pipe
InvokeReturned == runErr # Pending /\ drain # "none"

\* C16: under fair scheduling, once the process has exited or could not be
\* started, runStdin closes its write end (once, never twice), the drain
\* goroutine sees the end of the stream and sends, runStdin receives and
\* returns; the drain goroutine is never left at its send.
C16_InvokeReturns ==
    /\ [](Closes <= 1)
    /\ [](InvokeReturned => (Closes = 1 /\ ~auxWr /\ drain = "done"))
    /\ ProcessOver ~> InvokeReturned
    /\ (drain = "sending") ~> (drain = "done")

\* the process exited with a byte unread in the pipe; runStdin closed its
\* end once, received from the drain goroutine and returned
C16_Witness ==
    /\ pc = "back" /\ InvokeReturned /\ proc = "exited"
    /\ unreadAtExit # <<>> /\ Closes = 1 /\ drain = "done"
    /\ choice = procWritten

\* Run has built its arguments and has not yet returned
ArgsOut == cmdArgs # <<>> /\ pc # "ret"

\* C17: over any walk, the initial text an InputBox passes to the program
\* is the text its most recent successful Run got back (what its cell held
\* at first, if there was none); a CheckListBox passes item i as "on"
\* exactly when index i was in the set its most recent successful Run got
\* back (when its cell was on at first, if there was none), under the tags
\* 0..n-1, each of which the parser reads back as the index of its item.
C17_CellsCarry ==
    /\ (IsKind("InputBox") /\ ArgsOut) =>
          cmdArgs[Len(cmdArgs)] = lastOk[Self].text
    /\ (IsKind("CheckListBox") /\ ArgsOut) =>
          LET n == Len(This.Items)
              base == Len(cmdArgs) - 3 * n
          IN  /\ base > 0
              /\ \A i \in 1..n :
                    /\ Named(<<cmdArgs[base + 3 * i - 2]>>, i - 1)
                    /\ \A j \in 0..(n - 1) :
                          Named(<<cmdArgs[base + 3 * i - 2]>>, j) => j = i - 1
                    /\ cmdArgs[base + 3 * i - 1] = This.Items[i].Name
                    /\ cmdArgs[base + 3 * i] =
                          (IF (i - 1) \in lastOk[Self].set THEN "on"
                           ELSE "off")

\* the input box is run again after a Run that got "0 1" back: the cell,
\* "old" at first, is passed as "0 1"
C17_Witness ==
    /\ IsKind("InputBox") /\ Self = "in" /\ pc = "run"
    /\ lastOk["in"].text = "0 1"
    /\ cmdArgs[Len(cmdArgs)] = "0 1"

\* the checklist is run with its first item on and its second off
C17_WitnessChecklist ==
    /\ IsKind("CheckListBox") /\ Self = "cl" /\ pc = "run"
    /\ lastOk["cl"].set = {0}
    /\ SubSeq(cmdArgs, Len(cmdArgs) - 5, Len(cmdArgs))
          = <<"0", "item1", "on", "1", "item2", "off">>

\* C18: Run of an InputBox or CheckListBox with a Validate func calls it
\* exactly once when run(args) succeeded, with the text as returned and
\* while the cells still hold what they held when Run was called; it does
\* not call it when a check at the start of Run fails or run(args) fails;
\* and what Run returns and leaves in the cells is a function of the text
\* alone, so the same for either answer of Validate: the text (the items
\* it names) in the cells, NextSibling, no error.
C18_ValidateIgnored ==
    (IsKind("InputBox") \/ IsKind("CheckListBox")) =>
        /\ Len(valCalls) <= 1
        /\ This.Validate = Nil => valCalls = <<>>
        /\ (pc # "ret" \/ runErr # Nil) => valCalls = <<>>
        /\ (pc = "ret" /\ runErr = Nil /\ This.Validate # Nil) =>
              /\ Len(valCalls) = 1
              /\ valCalls[1].arg = Str(choice)
              /\ valCalls[1].seen = cells0
        /\ (pc = "ret" /\ runErr = Nil /\ IsKind("InputBox")) =>
              /\ strCell = [cells0.s EXCEPT ![This.Value] = Str(choice)]
              /\ boolCell = cells0.b
              /\ ret = Return(This.NextSibling)
        /\ (pc = "ret" /\ runErr = Nil /\ IsKind("CheckListBox")) =>
              /\ \A i \in 1..Len(This.Items) :
                    boolCell[This.Items[i].Value] = Named(choice, i - 1)
              /\ strCell = cells0.s
              /\ ret = Return(This.NextSibling)

\* Validate rejected the text "0 1" of a checklist whose cells were not
\* both on: both items are on and NextSibling is returned
C18_Witness ==
    /\ IsKind("CheckListBox") /\ pc = "ret" /\ runErr = Nil
    /\ Len(valCalls) = 1 /\ ~valCalls[1].ok /\ valCalls[1].arg = "0 1"
    /\ ~valCalls[1].seen.b["b1"]
    /\ boolCell["b1"] /\ boolCell["b2"]
    /\ ret = Return(NodeRef("pb"))

\* the same text accepted: the same cells and the same Dialog
C18_WitnessAccepted ==
    /\ IsKind("CheckListBox") /\ pc = "ret" /\ runErr = Nil
    /\ Len(valCalls) = 1 /\ valCalls[1].ok /\ valCalls[1].arg = "0 1"
    /\ ~valCalls[1].seen.b["b1"]
    /\ boolCell["b1"] /\ boolCell["b2"]
    /\ ret = Return(NodeRef("pb"))

\* C19: whenever Menu.Run returns without error, the Dialog it returns is
\* not nil: it is a ChildDialog, also when the matched option has no Next
\* (the ChildDialog then wraps nil), and the caller's walk goes on with
\* it; Menu.Run returns a nil Dialog only together with an error.
C19_MenuNeverTerminal ==
    (pc = "ret" /\ IsKind("Menu")) =>
        /\ ret.err = Nil =>
              /\ ret.next # NilDialog
              /\ ret.next.tag = "child"
              /\ ret.next.ParentMenu = Self
              /\ \E i \in 1..Len(opts) :
                    /\ opts[i].Key = Str(choice)
                    /\ ret.next.Dialog = opts[i].Next
              /\ ENABLED Follow
        /\ ret.next = NilDialog => ret.err \notin {Nil, Pending}

\* the matched option has no Next: a ChildDialog around nil came back
C19_Witness ==
    /\ pc = "ret" /\ IsKind("Menu") /\ ret.err = Nil
    /\ KeyHits # {} /\ opts[FirstHit].Next = NilDialog
    /\ ret.next.tag = "child" /\ ret.next.Dialog = NilDialog

\* C20 as claimed: the resolved width and the resolved height are strictly
\* positive for every configured value and every terminal size.
C20_AlwaysPositive == szPc = "done" => (szW > 0 /\ szH > 0)

\* a negative value v resolved against a terminal that answered S <= -v
SunkW == szCommon.Width < 0 /\ szQueryW.err = Nil
            /\ szQueryW.w + szCommon.Width <= 0
SunkH == szCommon.Height < 0 /\ szQueryH.err = Nil
            /\ szQueryH.h + szCommon.Height <= 0

\* C20 as amended: the resolved width (height) is strictly positive
\* except for a negative configured value v on a terminal that answers
\* with a dimension S <= -v: then S + v, zero or negative, is what is
\* passed on.
C20_PositiveUnlessSunk ==
    szPc = "done" =>
        /\ ~SunkW => szW > 0
        /\ SunkW => (szW = szQueryW.w + szCommon.Width /\ szW <= 0)
        /\ ~SunkH => szH > 0
        /\ SunkH => (szH = szQueryH.h + szCommon.Height /\ szH <= 0)

\* height -2 on a terminal of one row gives -1, width -1 on a terminal of
\* two columns gives 1
C20_Witness ==
    /\ szPc = "done"
    /\ szCommon.Height = -2 /\ szQueryH.err = Nil /\ szQueryH.h = 1
    /\ szH = -1
    /\ szCommon.Width = -1 /\ szQueryW.err = Nil /\ szQueryW.w = 2
    /\ szW = 1

=============================================================================
